---- MODULE Spec2Model ----
(***************************************************************************)
(* The logical-replication session of src/main.go: the bootstrap against   *)
(* the database (publication, system identification, replication slot,     *)
(* start of the stream) and the session loop with its standby status       *)
(* deadline, blocking receive, keepalive handler and XLogData dispatcher   *)
(* with its relation cache and row materialisation.                        *)
(*                                                                         *)
(* Time is counted in seconds.  WAL positions are small naturals, far      *)
(* below 2^64, so the uint64 addition of line 254 never wraps here.        *)
(***************************************************************************)
EXTENDS Integers, Sequences, FiniteSets, TLC

VARIABLES
    pc,                          \* the bootstrap call main is at, "loop" (line 93),
                                 \* "receive" (line 105), or how main ended
    logged,                      \* the message of the log.Fatal / panic / return that ended main
    now,                         \* time.Now()
    nextStandbyMessageDeadline,  \* line 88
    clientXLogPos,               \* line 86
    relations,                   \* line 89: RelationID -> RelationMessage
    rawMsg,                      \* line 105: the frame received in this iteration
    err,                         \* the error of the last call (lines 40-80, 105)
    events,                      \* the row-change output written in this iteration
    status,                      \* the standby status update sent in this iteration
    replyRequested,              \* history: a keepalive asked for a reply since the last update
    lastStatusTime,              \* history: when the last update was sent (or the stream started)
    framesReceived,              \* history: some frame has been received
    idleUpdates,                 \* history: updates sent before any frame was received
    latest,                      \* history: the last Relation message processed for each RelationID
    superseded,                  \* history: a Relation message has replaced an earlier one
    script,                      \* the chunks a scripted server sends, in order
    cursor,                      \* the next chunk of the script
    publication,                 \* database: publication pglogrepl_demo exists
    slot,                        \* database: the replication slot named pglogrepl_demo
    runs,                        \* history: how many times main has been started
    steps,                       \* history: the bootstrap calls that succeeded in this run
    startLSN                     \* history: the position given to StartReplication

database == <<publication, slot>>
bootstrap == <<runs, steps, startLSN>>

vars == <<pc, logged, now, nextStandbyMessageDeadline, clientXLogPos, relations,
          rawMsg, err, events, status, replyRequested, lastStatusTime, framesReceived,
          idleUpdates, latest, superseded, script, cursor, publication, slot, runs,
          steps, startLSN>>

(***************************************************************************)
(* Bounds of the model.                                                    *)
(***************************************************************************)
StartTime == 1        \* time.Now() when the stream starts
TickStep == 5         \* seconds the clock advances in one step
IdleTicks == 7        \* clock steps of a session in which the server sends no chunk
BusyTicks == 3        \* clock steps of a session in which the server sends chunks
StartLSN == 5         \* sysident.XLogPos
FarLSN == 8           \* a WALStart beyond the start position
SlotLSN == 3          \* the confirmed position of a slot left by an earlier session
MaxRuns == 3          \* how many times main is started against the same database

IdleTime == StartTime + IdleTicks * TickStep
BusyTime == StartTime + BusyTicks * TickStep

(***************************************************************************)
(* Program constants.                                                      *)
(***************************************************************************)
standbyMessageTimeout == 10
ZeroTime == 0

sysident == [XLogPos |-> StartLSN]

(***************************************************************************)
(* Inputs: relation schemas, tuples and logical messages.                  *)
(***************************************************************************)
RelationIDs == {1, 2}

NoRelation == [absent |-> TRUE]
NoTuple == [absent |-> TRUE]
NoEvent == [absent |-> TRUE]
NoStatus == [absent |-> TRUE]
NoFrame == [Frame |-> "none"]
NoSlot == [absent |-> TRUE]

\* error values
NoError == "nil"
Timeout == "timeout"                   \* pgconn.Timeout(err) holds
ConnectionLost == "connection lost"
AlreadyExists == "already exists"      \* the database refuses to create what is there
NoSuchSlot == "slot does not exist"

Column(name, type) == [Name |-> name, DataType |-> type]

\* trial(id int, name text), and the table after a schema change
ColumnLists == { <<Column("id", "int4"), Column("name", "text")>>,
                 <<Column("name", "other")>> }

RelationMessages ==
    { [Type |-> "Relation", RelationID |-> r, Namespace |-> "public",
       RelationName |-> IF Len(c) = 2 THEN "trial" ELSE "trial_v2", Columns |-> c]
      : r \in RelationIDs, c \in ColumnLists }

TupleColumns == { [DataType |-> "n"], [DataType |-> "u"], [DataType |-> "b"],
                  [DataType |-> "t", Data |-> "7"],
                  [DataType |-> "t", Data |-> "alice"] }

TupleData(columns) == [Columns |-> columns]

Tuples1 == { TupleData(<<c>>) : c \in TupleColumns }
Tuples2 == { TupleData(<<[DataType |-> "t", Data |-> "7"], c>>) : c \in TupleColumns }
              \cup { TupleData(<<[DataType |-> "n"], [DataType |-> "u"]>>),
                     TupleData(<<[DataType |-> "u"], [DataType |-> "n"]>>) }
Tuples == Tuples1 \cup Tuples2
\* the tuples of Update messages: OldTuple may be absent
OldTuples == { NoTuple, TupleData(<<[DataType |-> "n"]>>), TupleData(<<[DataType |-> "u"]>>),
               TupleData(<<[DataType |-> "t", Data |-> "7"], [DataType |-> "n"]>>) }
NewTuples == { TupleData(<<[DataType |-> "t", Data |-> "7"]>>),
               TupleData(<<[DataType |-> "t", Data |-> "alice"]>>),
               TupleData(<<[DataType |-> "t", Data |-> "7"], [DataType |-> "t", Data |-> "alice"]>>),
               TupleData(<<[DataType |-> "n"], [DataType |-> "u"]>>),
               TupleData(<<[DataType |-> "u"], [DataType |-> "b"]>>) }

InsertMessages ==
    { [Type |-> "Insert", RelationID |-> r, Tuple |-> t] : r \in RelationIDs, t \in Tuples }
UpdateMessages ==
    { [Type |-> "Update", RelationID |-> r, OldTuple |-> o, NewTuple |-> t]
      : r \in RelationIDs, o \in OldTuples, t \in NewTuples }
DeleteMessages ==
    { [Type |-> "Delete", RelationID |-> r] : r \in RelationIDs }
OtherMessages ==
    { [Type |-> t] : t \in {"Begin", "Commit", "Truncate", "Type", "Origin"} }

\* what pglogrepl.Parse returns for a payload with an unrecognized leading tag
ParseError == [Type |-> "ParseError"]

LogicalMessages ==
    RelationMessages \cup InsertMessages \cup UpdateMessages \cup DeleteMessages
        \cup OtherMessages \cup {ParseError}

WALStarts == {0, FarLSN}

\* len(xld.WALData): a payload is longer when its message carries a relation or tuples
WALDataLen(m) == IF m.Type \in {"Relation", "Insert", "Update", "Delete"} THEN 2 ELSE 1

XLogDatas ==
    { [Frame |-> "XLogData", Malformed |-> FALSE,
       WALStart |-> w, WALDataLen |-> WALDataLen(m), Message |-> m]
      : w \in WALStarts, m \in LogicalMessages }

(***************************************************************************)
(* decodeTextColumnData, lines 259-273.                                    *)
(***************************************************************************)
Nil == [nil |-> TRUE]
Int32(v) == [int32 |-> v]
String(s) == [string |-> s]

\* the decimal texts strconv.ParseInt accepts, among the texts of the model
Int4Texts == ("7" :> 7)

decodeTextColumnData(data, dataType) ==
    IF dataType = "int4"
    THEN IF data \in DOMAIN Int4Texts
         THEN [err |-> FALSE, val |-> Int32(Int4Texts[data])]
         ELSE [err |-> TRUE]
    ELSE [err |-> FALSE, val |-> String(data)]

(***************************************************************************)
(* The column loop of lines 164-183 (and 195-213, 216-234).                *)
(***************************************************************************)
EmptyValues == [x \in {} |-> Nil]

\* a variant that starts a new map at every assignment
Put_StartsAfresh(values, k, v) ==
    [x \in {k} |-> v]

\* values[colName] = v
Put(values, k, v) ==
    [x \in (DOMAIN values) \cup {k} |-> IF x = k THEN v ELSE values[x]]

\* a variant that stores nil for an unchanged TOAST column
columnValue_UnchangedAsNull(values, colName, col, dataType) ==
    CASE col.DataType \in {"n", "u"} -> [err |-> FALSE, values |-> Put(values, colName, Nil)]
      [] col.DataType = "t" ->
            LET d == decodeTextColumnData(col.Data, dataType)
            IN  IF d.err
                THEN [err |-> TRUE]
                ELSE [err |-> FALSE, values |-> Put(values, colName, d.val)]
      [] OTHER -> [err |-> FALSE, values |-> values]

\* a variant that leaves out a text column that does not decode
columnValue_SkipsBadText(values, colName, col, dataType) ==
    CASE col.DataType = "n" -> [err |-> FALSE, values |-> Put(values, colName, Nil)]
      [] col.DataType = "t" ->
            LET d == decodeTextColumnData(col.Data, dataType)
            IN  IF d.err
                THEN [err |-> FALSE, values |-> values]
                ELSE [err |-> FALSE, values |-> Put(values, colName, d.val)]
      [] OTHER -> [err |-> FALSE, values |-> values]

\* the switch on col.DataType, lines 167-181
columnValue(values, colName, col, dataType) ==
    CASE col.DataType = "n" -> [err |-> FALSE, values |-> Put(values, colName, Nil)]
      [] col.DataType = "t" ->
            LET d == decodeTextColumnData(col.Data, dataType)
            IN  IF d.err
                THEN [err |-> TRUE]                        \* log.Fatalln
                ELSE [err |-> FALSE, values |-> Put(values, colName, d.val)]
      [] OTHER -> [err |-> FALSE, values |-> values]       \* 'u' and 'b': printed, not stored

RECURSIVE tupleValues(_, _, _, _)
tupleValues(rel, columns, idx, values) ==
    IF idx > Len(columns)
    THEN [outcome |-> "ok", values |-> values]
    ELSE IF idx > Len(rel.Columns)
    THEN [outcome |-> "panic"]                     \* rel.Columns[idx]: index out of range
    ELSE LET c == columnValue(values, rel.Columns[idx].Name, columns[idx],
                              rel.Columns[idx].DataType)
         IN  IF c.err
             THEN [outcome |-> "fatal"]
             ELSE tupleValues(rel, columns, idx + 1, c.values)

(***************************************************************************)
(* The dispatcher, lines 148-252: one operator per case of the type switch. *)
(* Each returns how the case ended, what it logged when it ended main, the *)
(* relation cache afterwards and the row-change output it produced.        *)
(***************************************************************************)
Handled(rels, event) ==
    [outcome |-> "ok", logged |-> "", relations |-> rels, event |-> event]

Ended(outcome, message, rels) ==
    [outcome |-> outcome, logged |-> message, relations |-> rels, event |-> NoEvent]

EndedIn(tv, rels) ==
    IF tv.outcome = "fatal"
    THEN Ended("fatal", "error decoding column data", rels)
    ELSE Ended("panic", "index out of range", rels)

\* a variant that keeps the first schema seen for a RelationID
handleRelation_KeepsFirst(rels, m) ==
    IF rels[m.RelationID] = NoRelation
    THEN Handled([rels EXCEPT ![m.RelationID] = m], NoEvent)
    ELSE Handled(rels, NoEvent)

\* lines 149-150
handleRelation(rels, m) ==
    Handled([rels EXCEPT ![m.RelationID] = m], NoEvent)

\* a variant that logs an unknown relation and goes on to the next frame
handleInsert_SkipsUnknown(rels, m) ==
    LET rel == rels[m.RelationID] IN
    IF rel = NoRelation
    THEN Handled(rels, NoEvent)
    ELSE LET tv == tupleValues(rel, m.Tuple.Columns, 1, EmptyValues) IN
         IF tv.outcome = "ok"
         THEN Handled(rels, [Kind |-> "INSERT INTO", Namespace |-> rel.Namespace,
                             RelationName |-> rel.RelationName, values |-> tv.values])
         ELSE EndedIn(tv, rels)

\* lines 159-184
handleInsert(rels, m) ==
    LET rel == rels[m.RelationID] IN
    IF rel = NoRelation
    THEN Ended("fatal", "unknown relation ID", rels)
    ELSE LET tv == tupleValues(rel, m.Tuple.Columns, 1, EmptyValues) IN
         IF tv.outcome = "ok"
         THEN Handled(rels, [Kind |-> "INSERT INTO", Namespace |-> rel.Namespace,
                             RelationName |-> rel.RelationName, values |-> tv.values])
         ELSE EndedIn(tv, rels)

\* a variant that reads the columns of an old tuple that is not there
oldTupleValues_RequiresOldTuple(rel, oldTuple) ==
    IF oldTuple # NoTuple
    THEN tupleValues(rel, oldTuple.Columns, 1, EmptyValues)
    ELSE [outcome |-> "panic"]

\* lines 192-214
oldTupleValues(rel, oldTuple) ==
    IF oldTuple # NoTuple
    THEN tupleValues(rel, oldTuple.Columns, 1, EmptyValues)
    ELSE [outcome |-> "ok", values |-> EmptyValues]

\* lines 186-236
handleUpdate(rels, m) ==
    LET rel == rels[m.RelationID] IN
    IF rel = NoRelation
    THEN Ended("fatal", "unknown relation ID", rels)
    ELSE LET old == oldTupleValues(rel, m.OldTuple) IN
         IF old.outcome # "ok"
         THEN EndedIn(old, rels)
         ELSE LET new == tupleValues(rel, m.NewTuple.Columns, 1, EmptyValues) IN
              IF new.outcome = "ok"
              THEN Handled(rels, [Kind |-> "Update", Namespace |-> rel.Namespace,
                                  RelationName |-> rel.RelationName,
                                  after |-> new.values, before |-> old.values])
              ELSE EndedIn(new, rels)

\* lines 238-241
handleDelete(rels, m) ==
    Handled(rels, [Kind |-> "delete message", Message |-> m])

\* lines 242-245
handleTruncate(rels, m) ==
    Handled(rels, [Kind |-> "truncate message", Message |-> m])

\* a variant that skips a payload it cannot parse
dispatch_SkipsParseError(rels, m) ==
    CASE m.Type = "ParseError" -> Handled(rels, NoEvent)
      [] m.Type = "Relation"   -> handleRelation(rels, m)
      [] m.Type = "Insert"     -> handleInsert(rels, m)
      [] m.Type = "Update"     -> handleUpdate(rels, m)
      [] m.Type = "Delete"     -> handleDelete(rels, m)
      [] m.Type = "Truncate"   -> handleTruncate(rels, m)
      [] OTHER                 -> Handled(rels, NoEvent)

\* lines 143-252
dispatch(rels, m) ==
    CASE m.Type = "ParseError" -> Ended("fatal", "Parse logical replication message", rels)
      [] m.Type = "Relation"   -> handleRelation(rels, m)
      [] m.Type = "Insert"     -> handleInsert(rels, m)
      [] m.Type = "Update"     -> handleUpdate(rels, m)
      [] m.Type = "Delete"     -> handleDelete(rels, m)
      [] m.Type = "Truncate"   -> handleTruncate(rels, m)
      [] OTHER                 -> Handled(rels, NoEvent)    \* Begin, Commit, Type, Origin

\* a variant that adds the payload length to the position held
advance_FromPosition(pos, xld) == pos + xld.WALDataLen

\* line 254
advance(pos, xld) == xld.WALStart + xld.WALDataLen

\* a variant that is due at the deadline itself
statusDue_AtDeadline(t, deadline) == t >= deadline

\* line 93
statusDue(t, deadline) == t > deadline

\* a variant that asks for an update after every keepalive
deadlineAfterKeepalive_IgnoresFlag(deadline, pkm) ==
    ZeroTime

\* lines 133-135
deadlineAfterKeepalive(deadline, pkm) ==
    IF pkm.ReplyRequested THEN ZeroTime ELSE deadline

Running == pc \in {"loop", "receive"}

\* the calls of the bootstrap, lines 39-80, in program order
BootstrapCalls == << "DropPublication", "CreatePublication", "IdentifySystem",
                     "getReplicationSlot", "CreateReplicationSlot", "StartReplication" >>

(***************************************************************************)
(* The state when the loop of line 92 is first reached, in the first run   *)
(* of main against a database that had no slot.                            *)
(***************************************************************************)
InitLoop ==
    /\ pc = "loop"
    /\ logged = ""
    /\ now = StartTime
    /\ nextStandbyMessageDeadline = StartTime + standbyMessageTimeout
    /\ clientXLogPos = sysident.XLogPos
    /\ relations = [r \in RelationIDs |-> NoRelation]
    /\ rawMsg = NoFrame
    /\ events = NoEvent
    /\ status = NoStatus
    /\ replyRequested = FALSE
    /\ lastStatusTime = StartTime
    /\ framesReceived = FALSE
    /\ idleUpdates = 0
    /\ latest = [r \in RelationIDs |-> NoRelation]
    /\ superseded = FALSE
    /\ cursor = 1
    /\ err = NoError
    /\ publication = TRUE
    /\ slot = [confirmed_flush_lsn |-> sysident.XLogPos]
    /\ runs = 1
    /\ steps = BootstrapCalls
    /\ startLSN = sysident.XLogPos

Init ==
    /\ InitLoop
    /\ script = <<>>

(***************************************************************************)
(* The clock advances while main runs.                                     *)
(***************************************************************************)
Tick(limit) ==
    /\ Running
    /\ now + TickStep <= limit
    /\ now' = now + TickStep
    /\ UNCHANGED <<pc, logged, nextStandbyMessageDeadline, clientXLogPos, relations,
                   rawMsg, err, events, status, replyRequested, lastStatusTime,
                   framesReceived, idleUpdates, latest, superseded, script, cursor>>
    /\ UNCHANGED <<database, bootstrap>>

\* a variant that does not set the next deadline after sending
CheckStandbyDeadline_KeepsDeadline ==
    /\ pc = "loop"
    /\ pc' = "receive"
    /\ IF statusDue(now, nextStandbyMessageDeadline)
       THEN /\ status' = [WALWritePosition |-> clientXLogPos]
            /\ idleUpdates' = IF framesReceived THEN idleUpdates ELSE idleUpdates + 1
            /\ replyRequested' = FALSE
            /\ lastStatusTime' = now
            /\ UNCHANGED nextStandbyMessageDeadline
       ELSE /\ status' = NoStatus
            /\ UNCHANGED <<nextStandbyMessageDeadline, replyRequested, lastStatusTime,
                           idleUpdates>>
    /\ rawMsg' = NoFrame
    /\ err' = NoError
    /\ events' = NoEvent
    /\ UNCHANGED <<logged, now, clientXLogPos, relations, framesReceived,
                   latest, superseded, script, cursor>>
    /\ UNCHANGED <<database, bootstrap>>

\* lines 93-102, the send succeeding (or not being due)
CheckStandbyDeadline ==
    /\ pc = "loop"
    /\ pc' = "receive"
    /\ IF statusDue(now, nextStandbyMessageDeadline)
       THEN /\ status' = [WALWritePosition |-> clientXLogPos]
            /\ idleUpdates' = IF framesReceived THEN idleUpdates ELSE idleUpdates + 1
            /\ nextStandbyMessageDeadline' = now + standbyMessageTimeout
            /\ replyRequested' = FALSE
            /\ lastStatusTime' = now
       ELSE /\ status' = NoStatus
            /\ UNCHANGED <<nextStandbyMessageDeadline, replyRequested, lastStatusTime,
                           idleUpdates>>
    /\ rawMsg' = NoFrame                              \* a new iteration: nothing received,
    /\ err' = NoError
    /\ events' = NoEvent                              \* nothing written yet
    /\ UNCHANGED <<logged, now, clientXLogPos, relations, framesReceived,
                   latest, superseded, script, cursor>>
    /\ UNCHANGED <<database, bootstrap>>

\* lines 93-99, the send failing
SendStandbyStatusUpdateFailed ==
    /\ pc = "loop"
    /\ statusDue(now, nextStandbyMessageDeadline)
    /\ pc' = "fatal"
    /\ logged' = "SendStandbyStatusUpdate failed"
    /\ UNCHANGED <<now, nextStandbyMessageDeadline, clientXLogPos, relations, rawMsg, err,
                   events, status, replyRequested, lastStatusTime, framesReceived,
                   idleUpdates, latest, superseded, script, cursor>>
    /\ UNCHANGED <<database, bootstrap>>

\* lines 104-110: the context deadline has passed
ReceiveTimeout ==
    /\ pc = "receive"
    /\ now >= nextStandbyMessageDeadline
    /\ err' = Timeout
    /\ pc' = "loop"
    /\ UNCHANGED <<logged, now, nextStandbyMessageDeadline, clientXLogPos, relations,
                   rawMsg, events, status, replyRequested, lastStatusTime,
                   framesReceived, idleUpdates, latest, superseded, script, cursor>>
    /\ UNCHANGED <<database, bootstrap>>

\* A frame, or a failure of the connection, comes before the context deadline.
Receiving ==
    /\ pc = "receive"
    /\ now < nextStandbyMessageDeadline

\* the errors of conn.ReceiveMessage other than the timeout: the connection has been
\* closed (by the operator shutting the session down), or it broke
ReceiveErrors == {"conn closed", "unexpected EOF"}

\* lines 107-112: pgconn.Timeout(err) is false
ReceiveMessageFailed ==
    /\ Receiving
    /\ err' \in ReceiveErrors
    /\ pc' = "fatal"
    /\ logged' = "ReceiveMessage failed"
    /\ UNCHANGED <<now, nextStandbyMessageDeadline, clientXLogPos, relations, rawMsg,
                   events, status, replyRequested, lastStatusTime, framesReceived,
                   idleUpdates, latest, superseded, script, cursor>>
    /\ UNCHANGED <<database, bootstrap>>

\* a variant that treats the error frame like a failed receive
ReceiveErrorResponse_Fatal ==
    /\ Receiving
    /\ rawMsg' = [Frame |-> "ErrorResponse"]
    /\ pc' = "fatal"
    /\ logged' = "received Postgres WAL error"
    /\ framesReceived' = TRUE
    /\ UNCHANGED <<now, nextStandbyMessageDeadline, clientXLogPos, relations, err, events,
                   status, replyRequested, lastStatusTime, idleUpdates, latest,
                   superseded, script, cursor>>
    /\ UNCHANGED <<database, bootstrap>>

\* lines 114-117
ReceiveErrorResponse ==
    /\ Receiving
    /\ rawMsg' = [Frame |-> "ErrorResponse"]
    /\ pc' = "return"
    /\ logged' = "received Postgres WAL error"
    /\ framesReceived' = TRUE
    /\ UNCHANGED <<now, nextStandbyMessageDeadline, clientXLogPos, relations, err, events,
                   status, replyRequested, lastStatusTime, idleUpdates, latest,
                   superseded, script, cursor>>
    /\ UNCHANGED <<database, bootstrap>>

\* a variant that ends main on a frame it does not expect
ReceiveUnexpected_Fatal ==
    /\ Receiving
    /\ rawMsg' = [Frame |-> "Unexpected"]
    /\ pc' = "fatal"
    /\ framesReceived' = TRUE
    /\ UNCHANGED <<logged, now, nextStandbyMessageDeadline, clientXLogPos, relations,
                   err, events, status, replyRequested, lastStatusTime, idleUpdates,
                   latest, superseded, script, cursor>>
    /\ UNCHANGED <<database, bootstrap>>

\* lines 119-123, and a CopyData whose first byte is neither 'k' nor 'w' (line 125)
ReceiveUnexpected ==
    /\ Receiving
    /\ rawMsg' = [Frame |-> "Unexpected"]
    /\ pc' = "loop"
    /\ framesReceived' = TRUE
    /\ UNCHANGED <<logged, now, nextStandbyMessageDeadline, clientXLogPos, relations,
                   err, events, status, replyRequested, lastStatusTime, idleUpdates,
                   latest, superseded, script, cursor>>
    /\ UNCHANGED <<database, bootstrap>>

Keepalives ==
    { [Frame |-> "Keepalive", Malformed |-> FALSE, ReplyRequested |-> b] : b \in BOOLEAN }
        \cup { [Frame |-> "Keepalive", Malformed |-> TRUE] }

\* lines 126-135
ReceiveKeepalive(pkm) ==
    /\ Receiving
    /\ rawMsg' = pkm
    /\ framesReceived' = TRUE
    /\ IF pkm.Malformed
       THEN /\ pc' = "fatal"
            /\ logged' = "ParsePrimaryKeepaliveMessage failed"
            /\ UNCHANGED <<nextStandbyMessageDeadline, replyRequested>>
       ELSE /\ pc' = "loop"
            /\ nextStandbyMessageDeadline' =
                   deadlineAfterKeepalive(nextStandbyMessageDeadline, pkm)
            /\ replyRequested' = (replyRequested \/ pkm.ReplyRequested)
            /\ UNCHANGED logged
    /\ UNCHANGED <<now, clientXLogPos, relations, err, events, status, lastStatusTime,
                   idleUpdates, latest, superseded, script, cursor>>
    /\ UNCHANGED <<database, bootstrap>>

MalformedXLogData == [Frame |-> "XLogData", Malformed |-> TRUE]

\* lines 137-254
XLogData(xld) ==
    /\ Receiving
    /\ rawMsg' = xld
    /\ framesReceived' = TRUE
    /\ IF xld.Malformed
       THEN /\ pc' = "fatal"
            /\ logged' = "ParseXLogData failed"
            /\ UNCHANGED <<relations, events, clientXLogPos, latest, superseded>>
       ELSE LET m == xld.Message
                d == dispatch(relations, m)
            IN  /\ relations' = d.relations
                /\ events' = d.event
                /\ IF m.Type = "Relation"
                   THEN /\ latest' = [latest EXCEPT ![m.RelationID] = m]
                        /\ superseded' = (superseded \/ latest[m.RelationID] # NoRelation)
                   ELSE UNCHANGED <<latest, superseded>>
                /\ IF d.outcome = "ok"
                   THEN /\ pc' = "loop"
                        /\ clientXLogPos' = advance(clientXLogPos, xld)
                        /\ UNCHANGED logged
                   ELSE /\ pc' = d.outcome
                        /\ logged' = d.logged
                        /\ UNCHANGED clientXLogPos
    /\ UNCHANGED <<now, nextStandbyMessageDeadline, err, status, replyRequested,
                   lastStatusTime, idleUpdates>>
    /\ UNCHANGED <<database, bootstrap>>

\* the server sends any chunk
ReceiveXLogData ==
    /\ \E xld \in XLogDatas \cup {MalformedXLogData} : XLogData(xld)
    /\ UNCHANGED <<script, cursor>>

\* the server sends the next chunk of its script
ReceiveScripted ==
    /\ cursor <= Len(script)
    /\ XLogData(script[cursor])
    /\ cursor' = cursor + 1
    /\ UNCHANGED script

Next ==
    \/ Tick(BusyTime)
    \/ CheckStandbyDeadline
    \/ SendStandbyStatusUpdateFailed
    \/ ReceiveTimeout
    \/ ReceiveMessageFailed
    \/ ReceiveErrorResponse
    \/ ReceiveUnexpected
    \/ \E pkm \in Keepalives : ReceiveKeepalive(pkm)
    \/ ReceiveXLogData

Spec == Init /\ [][Next]_vars

\* A session in which the server sends no chunk: the housekeeping path over a long span.
NextIdle ==
    \/ Tick(IdleTime)
    \/ CheckStandbyDeadline
    \/ SendStandbyStatusUpdateFailed
    \/ ReceiveTimeout
    \/ ReceiveMessageFailed
    \/ ReceiveErrorResponse
    \/ ReceiveUnexpected
    \/ \E pkm \in Keepalives : ReceiveKeepalive(pkm)

SpecIdle == Init /\ [][NextIdle]_vars

\* A session in which the server sends (Relation R, Begin, Insert on R, Commit).
Chunk(w, m) ==
    [Frame |-> "XLogData", Malformed |-> FALSE,
     WALStart |-> w, WALDataLen |-> WALDataLen(m), Message |-> m]

RoundTrips ==
    { << Chunk(w, rel), Chunk(w, [Type |-> "Begin"]),
         Chunk(w, [Type |-> "Insert", RelationID |-> rel.RelationID, Tuple |-> t]),
         Chunk(w, [Type |-> "Commit"]) >>
      : w \in WALStarts, rel \in RelationMessages, t \in Tuples }

InitRoundTrip ==
    /\ InitLoop
    /\ script \in RoundTrips

NextRoundTrip ==
    \/ Tick(BusyTime)
    \/ CheckStandbyDeadline
    \/ SendStandbyStatusUpdateFailed
    \/ ReceiveTimeout
    \/ ReceiveMessageFailed
    \/ ReceiveErrorResponse
    \/ ReceiveUnexpected
    \/ \E pkm \in Keepalives : ReceiveKeepalive(pkm)
    \/ ReceiveScripted

SpecRoundTrip == InitRoundTrip /\ [][NextRoundTrip]_vars

(***************************************************************************)
(* The bootstrap, lines 39-89, against a database that keeps its           *)
(* publication and its replication slot from one run of main to the next.  *)
(***************************************************************************)
session == <<now, nextStandbyMessageDeadline, clientXLogPos, relations, rawMsg, events,
             status, replyRequested, lastStatusTime, framesReceived, idleUpdates,
             latest, superseded, script, cursor>>

Exited == pc \in {"fatal", "panic", "return"}

Called(call) == \E i \in 1..Len(steps) : steps[i] = call

\* the start of main, after pgconn.Connect
InitMain ==
    /\ pc = "DropPublication"
    /\ logged = ""
    /\ now = StartTime
    /\ nextStandbyMessageDeadline = ZeroTime
    /\ clientXLogPos = 0
    /\ relations = [r \in RelationIDs |-> NoRelation]
    /\ rawMsg = NoFrame
    /\ err = NoError
    /\ events = NoEvent
    /\ status = NoStatus
    /\ replyRequested = FALSE
    /\ lastStatusTime = StartTime
    /\ framesReceived = FALSE
    /\ idleUpdates = 0
    /\ latest = [r \in RelationIDs |-> NoRelation]
    /\ superseded = FALSE
    /\ script = <<>>
    /\ cursor = 1
    /\ runs = 1
    /\ steps = <<>>
    /\ startLSN = 0

\* the database may hold the publication and the slot of an earlier session
InitBootstrap ==
    /\ InitMain
    /\ publication \in BOOLEAN
    /\ slot \in {NoSlot, [confirmed_flush_lsn |-> SlotLSN]}

\* the call returned without error: main goes on to the next call
Succeeded(call, next) ==
    /\ steps' = Append(steps, call)
    /\ pc' = next
    /\ err' = NoError
    /\ UNCHANGED <<logged, runs>>

\* the call returned an error: log.Fatalln (or panic) ends main
Failed(outcome, message, e) ==
    /\ pc' = outcome
    /\ logged' = message
    /\ err' = e
    /\ UNCHANGED <<database, bootstrap, session>>

\* what the database answers to CREATE of something named n
createErrors(exists) == IF exists THEN {AlreadyExists} ELSE {}

\* lines 39-43: DROP PUBLICATION IF EXISTS
DropPublication ==
    /\ pc = "DropPublication"
    /\ \/ /\ publication' = FALSE
          /\ Succeeded("DropPublication", "CreatePublication")
          /\ UNCHANGED <<slot, startLSN, session>>
       \/ Failed("fatal", "drop publication if exists error", ConnectionLost)

\* lines 45-50: CREATE PUBLICATION
CreatePublication ==
    /\ pc = "CreatePublication"
    /\ \/ /\ ~publication
          /\ publication' = TRUE
          /\ Succeeded("CreatePublication", "IdentifySystem")
          /\ UNCHANGED <<slot, startLSN, session>>
       \/ \E e \in createErrors(publication) \cup {ConnectionLost} :
              Failed("fatal", "create publication error", e)

\* a variant that goes on to the slot lookup although the identification failed
IdentifySystem_IgnoresError ==
    /\ pc = "IdentifySystem"
    /\ \/ /\ Succeeded("IdentifySystem", "getReplicationSlot")
          /\ UNCHANGED <<database, startLSN, session>>
       \/ /\ pc' = "getReplicationSlot"
          /\ err' = ConnectionLost
          /\ UNCHANGED <<logged, database, bootstrap, session>>

\* lines 59-63
IdentifySystem ==
    /\ pc = "IdentifySystem"
    /\ \/ /\ Succeeded("IdentifySystem", "getReplicationSlot")
          /\ UNCHANGED <<database, startLSN, session>>
       \/ Failed("fatal", "IdentifySystem failed", ConnectionLost)

\* the rows of SELECT * FROM pg_replication_slots WHERE slot_name = 'pglogrepl_demo'
getReplicationSlot(s) == IF s = NoSlot THEN <<>> ELSE <<s>>

\* a variant that creates the slot whatever the lookup found
slotMissing_Always(res) == TRUE

\* line 71
slotMissing(res) == Len(res) = 0

\* lines 66-71
GetReplicationSlot ==
    /\ pc = "getReplicationSlot"
    /\ \/ /\ Succeeded("getReplicationSlot",
                       IF slotMissing(getReplicationSlot(slot))
                       THEN "CreateReplicationSlot" ELSE "StartReplication")
          /\ UNCHANGED <<database, startLSN, session>>
       \/ Failed("panic", "getReplicationSlot", ConnectionLost)

\* lines 72-76: the new slot confirms the position the server is at
CreateReplicationSlot ==
    /\ pc = "CreateReplicationSlot"
    /\ \/ /\ slot = NoSlot
          /\ slot' = [confirmed_flush_lsn |-> sysident.XLogPos]
          /\ Succeeded("CreateReplicationSlot", "StartReplication")
          /\ UNCHANGED <<publication, startLSN, session>>
       \/ \E e \in createErrors(slot # NoSlot) \cup {ConnectionLost} :
              Failed("fatal", "CreateReplicationSlot failed", e)

\* line 80: the position given to StartReplication
startPosition(s) == sysident.XLogPos

\* lines 80-89
StartReplication ==
    /\ pc = "StartReplication"
    /\ \/ /\ slot # NoSlot
          /\ startLSN' = startPosition(slot)
          /\ Succeeded("StartReplication", "loop")
          /\ clientXLogPos' = sysident.XLogPos                              \* line 86
          /\ nextStandbyMessageDeadline' = now + standbyMessageTimeout      \* line 88
          /\ relations' = [r \in RelationIDs |-> NoRelation]                \* line 89
          /\ lastStatusTime' = now
          /\ UNCHANGED <<database, now, rawMsg, events, status, replyRequested,
                         framesReceived, idleUpdates, latest, superseded, script, cursor>>
       \/ \E e \in (IF slot = NoSlot THEN {NoSuchSlot} ELSE {}) \cup {ConnectionLost} :
              Failed("fatal", "StartReplication failed", e)

\* main has ended and is started again; the database is as the last run left it
Rerun ==
    /\ Exited
    /\ runs < MaxRuns
    /\ runs' = runs + 1
    /\ pc' = "DropPublication"
    /\ logged' = ""
    /\ nextStandbyMessageDeadline' = ZeroTime
    /\ clientXLogPos' = 0
    /\ relations' = [r \in RelationIDs |-> NoRelation]
    /\ rawMsg' = NoFrame
    /\ err' = NoError
    /\ events' = NoEvent
    /\ status' = NoStatus
    /\ replyRequested' = FALSE
    /\ lastStatusTime' = now
    /\ framesReceived' = FALSE
    /\ idleUpdates' = 0
    /\ latest' = [r \in RelationIDs |-> NoRelation]
    /\ superseded' = FALSE
    /\ cursor' = 1
    /\ steps' = <<>>
    /\ startLSN' = 0
    /\ UNCHANGED <<now, script, database>>

NextBootstrap ==
    \/ DropPublication
    \/ CreatePublication
    \/ IdentifySystem
    \/ GetReplicationSlot
    \/ CreateReplicationSlot
    \/ StartReplication
    \/ Rerun
    \/ Tick(BusyTime)
    \/ CheckStandbyDeadline
    \/ SendStandbyStatusUpdateFailed
    \/ ReceiveTimeout
    \/ ReceiveMessageFailed
    \/ ReceiveErrorResponse
    \/ ReceiveUnexpected
    \/ \E pkm \in Keepalives : ReceiveKeepalive(pkm)

SpecBootstrap == InitBootstrap /\ [][NextBootstrap]_vars

(***************************************************************************)
(* Vocabulary of the properties.                                           *)
(***************************************************************************)
\* this step receives a chunk carrying a message of one of the given types
ChunkStep(types) ==
    /\ pc = "receive"
    /\ rawMsg'.Frame = "XLogData"
    /\ ~rawMsg'.Malformed
    /\ rawMsg'.Message.Type \in types

\* the chunk of the current iteration carries a message of one of the given types
ChunkSeen(types) ==
    /\ rawMsg.Frame = "XLogData"
    /\ ~rawMsg.Malformed
    /\ rawMsg.Message.Type \in types

Emitted == events' # NoEvent

\* a text column of the tuple cannot be decoded as the type of its schema column
BadText(rel, columns) ==
    \E i \in 1..Len(columns) :
        /\ i <= Len(rel.Columns)
        /\ columns[i].DataType = "t"
        /\ decodeTextColumnData(columns[i].Data, rel.Columns[i].DataType).err

Materialises(rel, columns) ==
    /\ Len(columns) <= Len(rel.Columns)
    /\ ~BadText(rel, columns)

\* the row of a tuple, column name by column name
StoredColumns(columns) == { i \in 1..Len(columns) : columns[i].DataType \in {"n", "t"} }

ExpectedValues(rel, columns) ==
    [ name \in { rel.Columns[i].Name : i \in StoredColumns(columns) } |->
        LET i == CHOOSE j \in StoredColumns(columns) : rel.Columns[j].Name = name
        IN  IF columns[i].DataType = "n"
            THEN Nil
            ELSE decodeTextColumnData(columns[i].Data, rel.Columns[i].DataType).val ]

(***************************************************************************)
(* C1.  In the loop a standby status update is sent exactly when more than *)
(* the interval has passed since the last update (or the stream start) or  *)
(* a keepalive has asked for a reply since the last update; when it is due *)
(* the loop sends it at that very check (or main ends because the send     *)
(* failed), and no other step sends one.                                   *)
(***************************************************************************)
Due == now > lastStatusTime + standbyMessageTimeout \/ replyRequested

C2_PositionMonotonic ==
    [][clientXLogPos' >= clientXLogPos]_vars

(***************************************************************************)
(* C3.  An Insert for a RelationID without a cache entry ends main with a  *)
(* fatal error: nothing is written for it, the confirmed position stays,   *)
(* and nothing is processed afterwards.                                    *)
(***************************************************************************)
C3_InsertUnknownRelationFatal ==
    [][ /\ Running
        /\ (ChunkStep({"Insert"}) /\ relations[rawMsg'.Message.RelationID] = NoRelation)
              => /\ pc' = "fatal"
                 /\ events' = events
                 /\ relations' = relations
                 /\ clientXLogPos' = clientXLogPos ]_vars

C3_Witness ==
    /\ ChunkSeen({"Insert"})
    /\ relations[rawMsg.Message.RelationID] = NoRelation
    /\ pc = "fatal"
    /\ logged = "unknown relation ID"

(***************************************************************************)
(* C4.  The cache holds, for every RelationID, the last Relation message   *)
(* processed for it, and the row written for an Insert or Update on R is   *)
(* built from that message.                                                *)
(***************************************************************************)
C4_LatestRelationWins ==
    [][ /\ relations' = latest'
        /\ (ChunkStep({"Insert", "Update"}) /\ Emitted)
              => LET m == rawMsg'.Message
                     rel == latest[m.RelationID]
                     columns == IF m.Type = "Insert" THEN m.Tuple.Columns
                                                     ELSE m.NewTuple.Columns
                     row == IF m.Type = "Insert" THEN events'.values
                                                 ELSE events'.after
                 IN  /\ rel # NoRelation
                     /\ events'.Namespace = rel.Namespace
                     /\ events'.RelationName = rel.RelationName
                     /\ row = ExpectedValues(rel, columns) ]_vars

\* a Relation message for R has replaced an earlier one, another RelationID is cached
\* too, and a row for R has been written
C4_Witness ==
    /\ superseded
    /\ ChunkSeen({"Insert", "Update"})
    /\ events # NoEvent
    /\ \A r \in RelationIDs : relations[r] # NoRelation
    /\ \E r \in RelationIDs : relations[r] # relations[rawMsg.Message.RelationID]

(***************************************************************************)
(* C5.  In every row written (Insert row, Update before-row and after-row) *)
(* a column tagged 'n' is present with the nil value and a column tagged   *)
(* 'u' is not present at all.                                              *)
(***************************************************************************)
NullAndUnchangedDiffer(rel, columns, row) ==
    \A i \in 1..Len(columns) :
        /\ columns[i].DataType = "n" =>
              (rel.Columns[i].Name \in DOMAIN row /\ row[rel.Columns[i].Name] = Nil)
        /\ columns[i].DataType = "u" => rel.Columns[i].Name \notin DOMAIN row

C5_NullNotUnchanged ==
    [][ (ChunkStep({"Insert", "Update"}) /\ Emitted)
          => LET m == rawMsg'.Message
                 rel == relations[m.RelationID]
             IN  IF m.Type = "Insert"
                 THEN NullAndUnchangedDiffer(rel, m.Tuple.Columns, events'.values)
                 ELSE /\ NullAndUnchangedDiffer(rel, m.NewTuple.Columns, events'.after)
                      /\ m.OldTuple # NoTuple =>
                            NullAndUnchangedDiffer(rel, m.OldTuple.Columns,
                                                   events'.before) ]_vars

\* a row has been written for a tuple with a 'n' and a 'u' column
C5_Witness ==
    /\ ChunkSeen({"Insert"})
    /\ events # NoEvent
    /\ \E i, j \in 1..Len(rawMsg.Message.Tuple.Columns) :
          /\ rawMsg.Message.Tuple.Columns[i].DataType = "n"
          /\ rawMsg.Message.Tuple.Columns[j].DataType = "u"

(***************************************************************************)
(* C6.  An Update without old tuple for a cached relation, whose new tuple *)
(* materialises, does not end main: the Update written has an empty        *)
(* before-row and the after-row of the new tuple, and the confirmed        *)
(* position moves to WALStart + len(WALData).                              *)
(***************************************************************************)
C6_UpdateWithoutOldTuple ==
    [][ ( /\ ChunkStep({"Update"})
          /\ rawMsg'.Message.OldTuple = NoTuple
          /\ relations[rawMsg'.Message.RelationID] # NoRelation
          /\ Materialises(relations[rawMsg'.Message.RelationID],
                          rawMsg'.Message.NewTuple.Columns) )
          => LET m == rawMsg'.Message
                 rel == relations[m.RelationID]
             IN  /\ pc' = "loop"
                 /\ logged' = logged
                 /\ Emitted
                 /\ events'.Kind = "Update"
                 /\ events'.before = EmptyValues
                 /\ events'.after = ExpectedValues(rel, m.NewTuple.Columns)
                 /\ clientXLogPos' = rawMsg'.WALStart + rawMsg'.WALDataLen ]_vars

C6_Witness ==
    /\ ChunkSeen({"Update"})
    /\ rawMsg.Message.OldTuple = NoTuple
    /\ pc = "loop"
    /\ events # NoEvent
    /\ events.after # EmptyValues

WellFormedText(rel, columns) ==
    /\ Len(columns) = Len(rel.Columns)
    /\ \A i \in 1..Len(columns) : columns[i].DataType \in {"n", "t"}
    /\ ~BadText(rel, columns)

PositionalRow(rel, columns) ==
    [ name \in { rel.Columns[i].Name : i \in 1..Len(rel.Columns) } |->
        LET i == CHOOSE j \in 1..Len(rel.Columns) : rel.Columns[j].Name = name
        IN  IF columns[i].DataType = "n"
            THEN Nil
            ELSE IF rel.Columns[i].DataType = "int4"
                 THEN Int32(Int4Texts[columns[i].Data])
                 ELSE String(columns[i].Data) ]

C8_RoundTrip ==
    (script # <<>> /\ WellFormedText(script[1].Message, script[3].Message.Tuple.Columns))
      => LET rel == script[1].Message
             insert == script[3].Message
         IN  /\ ~ChunkSeen({"Insert"}) => events = NoEvent
             /\ ChunkSeen({"Insert"}) =>
                   events = [Kind |-> "INSERT INTO", Namespace |-> rel.Namespace,
                                  RelationName |-> rel.RelationName,
                                  values |-> PositionalRow(rel, insert.Tuple.Columns)]
             /\ cursor = 1 => relations = [r \in RelationIDs |-> NoRelation]
             /\ cursor >= 2 =>
                   relations = [r \in RelationIDs |->
                                   IF r = rel.RelationID THEN rel ELSE NoRelation]
             /\ pc \notin {"panic"}
             /\ pc = "fatal" => logged \in {"ReceiveMessage failed",
                                            "SendStandbyStatusUpdate failed",
                                            "ParsePrimaryKeepaliveMessage failed"}

\* the whole script has been processed
C8_Witness ==
    /\ script # <<>>
    /\ WellFormedText(script[1].Message, script[3].Message.Tuple.Columns)
    /\ Len(script[1].Message.Columns) = 2
    /\ cursor = 5
    /\ ChunkSeen({"Commit"})
    /\ pc = "loop"
    /\ events = NoEvent

(***************************************************************************)
(* C9.  No Insert, Update or Delete for a RelationID without a cache entry *)
(* is turned into output: main ends with a fatal error instead.            *)
(***************************************************************************)
C9_NoRowChangeWithoutRelation ==
    [][ (ChunkStep({"Insert", "Update", "Delete"})
            /\ relations[rawMsg'.Message.RelationID] = NoRelation)
          => (pc' = "fatal" /\ events' = events) ]_vars

(***************************************************************************)
(* C10.  When decoding a text column of an Insert or Update fails, main    *)
(* ends with a fatal error: nothing is written for the row, the cache and  *)
(* the confirmed position stay, and nothing is processed afterwards.       *)
(***************************************************************************)
\* the column loops reach a text column that does not decode
DecodeFails(rel, m) ==
    IF m.Type = "Insert"
    THEN BadText(rel, m.Tuple.Columns)
    ELSE IF m.OldTuple = NoTuple
         THEN BadText(rel, m.NewTuple.Columns)
         ELSE \/ BadText(rel, m.OldTuple.Columns)
              \/ (Materialises(rel, m.OldTuple.Columns) /\ BadText(rel, m.NewTuple.Columns))

DecodeFailureStep ==
    /\ ChunkStep({"Insert", "Update"})
    /\ relations[rawMsg'.Message.RelationID] # NoRelation
    /\ DecodeFails(relations[rawMsg'.Message.RelationID], rawMsg'.Message)

TuplesOf(m) ==
    IF m.Type = "Insert"
    THEN {m.Tuple}
    ELSE {m.NewTuple} \cup (IF m.OldTuple = NoTuple THEN {} ELSE {m.OldTuple})

ColumnCountMismatch(rel, m) ==
    \E t \in TuplesOf(m) : Len(t.Columns) # Len(rel.Columns)

C11_ColumnCountMismatchFatal ==
    [][ ( /\ ChunkStep({"Insert", "Update"})
          /\ relations[rawMsg'.Message.RelationID] # NoRelation
          /\ ColumnCountMismatch(relations[rawMsg'.Message.RelationID], rawMsg'.Message) )
          => (pc' \in {"fatal", "panic"} /\ events' = events) ]_vars

C13_ErrorResponseReturns ==
    [][ /\ (pc = "receive" /\ rawMsg'.Frame = "ErrorResponse")
              => /\ pc' = "return"
                 /\ logged' = "received Postgres WAL error"
                 /\ status' = status
                 /\ events' = events
                 /\ relations' = relations
                 /\ clientXLogPos' = clientXLogPos
        /\ pc # "return" ]_vars

\* main has returned on an error frame after it had cached a relation
C13_Witness ==
    /\ pc = "return"
    /\ rawMsg.Frame = "ErrorResponse"
    /\ \E r \in RelationIDs : relations[r] # NoRelation

(***************************************************************************)
(* C14.  A receive that fails because the connection has been closed makes *)
(* main return, as a clean exit; any other receive error that is not the   *)
(* timeout ends main with a fatal error.                                   *)
(***************************************************************************)
C14_ClosedConnectionCleanExit ==
    [][ (pc = "receive" /\ err' \in ReceiveErrors)
          => IF err' = "conn closed" THEN pc' = "return" ELSE pc' = "fatal" ]_vars

(***************************************************************************)
(* C15.  Over any number of runs of main against the same database: no     *)
(* call fails because the publication or the slot is already there; the    *)
(* slot is created exactly when the lookup by name finds none and is       *)
(* otherwise reused without a create call; the database's slot changes     *)
(* only by being created where there was none; and when the stream starts  *)
(* the publication and the one slot of that name exist.                    *)
(***************************************************************************)
C15_SlotEnsureIdempotent ==
    [][ /\ err' # AlreadyExists
        /\ (pc = "getReplicationSlot" /\ ~Exited')
              => pc' = IF slot = NoSlot THEN "CreateReplicationSlot" ELSE "StartReplication"
        /\ (slot' # slot)
              => (pc = "CreateReplicationSlot" /\ slot = NoSlot /\ slot' # NoSlot)
        /\ (pc = "StartReplication" /\ pc' = "loop")
              => (slot' # NoSlot /\ publication') ]_vars

\* a later run streams on the slot that an earlier run created, without creating it
C15_Witness ==
    /\ runs >= 2
    /\ Running
    /\ ~Called("CreateReplicationSlot")
    /\ slot = [confirmed_flush_lsn |-> sysident.XLogPos]
    /\ publication

(***************************************************************************)
(* C16.  The stream is started at the position the slot has confirmed when *)
(* the slot was found, and at the position of system identification only   *)
(* when this run created the slot; the confirmed position the loop starts  *)
(* with is that same position.                                             *)
(***************************************************************************)
C16_StartsAtSlotPosition ==
    Running =>
        LET start == IF Called("CreateReplicationSlot")
                     THEN sysident.XLogPos
                     ELSE slot.confirmed_flush_lsn
        IN  /\ startLSN = start
            /\ ~framesReceived => clientXLogPos = start

(***************************************************************************)
(* C17.  The loop runs only after the bootstrap calls have succeeded in    *)
(* program order: system identification, slot lookup, slot creation when   *)
(* the lookup found none, start of the stream.  A call that fails ends     *)
(* main there: the calls made so far and the database stay as they are, no *)
(* later call is made, and no status update is sent before the stream has  *)
(* started.                                                                *)
(***************************************************************************)
IsPrefix(s, t) == Len(s) <= Len(t) /\ \A i \in 1..Len(s) : s[i] = t[i]

\* the calls of a run that finds the slot
ReuseCalls == SelectSeq(BootstrapCalls, LAMBDA c : c # "CreateReplicationSlot")

BootstrapOrder ==
    /\ IsPrefix(steps, BootstrapCalls) \/ IsPrefix(steps, ReuseCalls)
    /\ Running => Called("StartReplication")
    /\ ~Called("StartReplication") => status = NoStatus

C17_BootstrapBeforeLoop ==
    [][ /\ BootstrapOrder'
        /\ (~Running /\ ~Exited /\ Exited') => (steps' = steps /\ database' = database)
        /\ Exited => (pc' = "DropPublication" /\ steps' = <<>> /\ runs' = runs + 1) ]_vars

\* the loop has sent a status update in a run that created the slot
C17_Witness ==
    /\ Running
    /\ steps = BootstrapCalls
    /\ status # NoStatus

(***************************************************************************)
(* C18.  Every receive starts with the time not past the deadline; a       *)
(* receive ends with a frame or a connection error only before the         *)
(* deadline and with the timeout only from the deadline on; and when the   *)
(* loop comes round with the deadline passed, whatever it received, it     *)
(* sends the status update (or main ends) before it receives again.        *)
(***************************************************************************)
C18_NoReceiveWhileDue ==
    [][ /\ (pc # "receive" /\ pc' = "receive") => now' <= nextStandbyMessageDeadline'
        /\ (pc = "receive" /\ pc' # "receive")
              => IF err' = Timeout
                 THEN now >= nextStandbyMessageDeadline
                 ELSE now < nextStandbyMessageDeadline
        /\ (pc = "loop" /\ now > nextStandbyMessageDeadline /\ pc' # "loop")
              => (status' # NoStatus \/ pc' = "fatal") ]_vars

\* chunks have been processed, the interval has run out, and the update has gone out
\* before the receive that is now starting
C18_Witness ==
    /\ pc = "receive"
    /\ status # NoStatus
    /\ lastStatusTime = now
    /\ now > StartTime + standbyMessageTimeout
    /\ now < nextStandbyMessageDeadline
    /\ \E r \in RelationIDs : relations[r] # NoRelation

(***************************************************************************)
(* C19.  The confirmed position is the position the stream was started at  *)
(* until a chunk has been processed to the end, and from then on WALStart  *)
(* + len(WALData) of the last such chunk: a chunk that ends main, and      *)
(* every other step, leaves it alone.  A status update carries the         *)
(* position held when it is sent, and sending it sets the deadline to the  *)
(* send time plus the interval and leaves the position alone.              *)
(***************************************************************************)
MessageTypes == { m.Type : m \in LogicalMessages }

C19_StatusCarriesPosition ==
    /\ clientXLogPos = sysident.XLogPos
    /\ [][ /\ IF ChunkStep(MessageTypes) /\ pc' = "loop"
              THEN clientXLogPos' = rawMsg'.WALStart + rawMsg'.WALDataLen
              ELSE clientXLogPos' = clientXLogPos
           /\ (pc = "loop" /\ pc' = "receive" /\ status' # NoStatus)
                 => /\ status'.WALWritePosition = clientXLogPos
                    /\ nextStandbyMessageDeadline' = now + standbyMessageTimeout ]_vars

\* an update has acknowledged the end of a processed chunk
C19_Witness ==
    /\ pc = "receive"
    /\ status # NoStatus
    /\ status.WALWritePosition = FarLSN + 2
    /\ clientXLogPos = FarLSN + 2

(***************************************************************************)
(* C20.  A receive timeout, a frame of unexpected type and a keepalive     *)
(* that parses each take the loop to its next iteration with the confirmed *)
(* position and the cache as they were and nothing written; the deadline   *)
(* changes exactly when the frame is a keepalive asking for a reply.       *)
(***************************************************************************)
HousekeepingStep ==
    /\ pc = "receive"
    /\ \/ err' = Timeout
       \/ rawMsg'.Frame = "Unexpected"
       \/ (rawMsg'.Frame = "Keepalive" /\ ~rawMsg'.Malformed)

C20_HousekeepingFrames ==
    [][ HousekeepingStep
          => /\ pc' = "loop"
             /\ logged' = logged
             /\ clientXLogPos' = clientXLogPos
             /\ relations' = relations
             /\ events' = NoEvent
             /\ status' = status
             /\ (nextStandbyMessageDeadline' # nextStandbyMessageDeadline)
                   <=> (rawMsg'.Frame = "Keepalive" /\ rawMsg'.ReplyRequested) ]_vars

\* a keepalive asking for a reply has come in after a chunk was processed
C20_Witness ==
    /\ pc = "loop"
    /\ rawMsg.Frame = "Keepalive"
    /\ ~rawMsg.Malformed
    /\ rawMsg.ReplyRequested
    /\ nextStandbyMessageDeadline = ZeroTime
    /\ clientXLogPos # sysident.XLogPos
    /\ \E r \in RelationIDs : relations[r] # NoRelation

====
